---- MODULE Spec2Model ----
(***************************************************************************)
(* Alert database server: command-line start-up (alertdb/bin/alertdb.py),  *)
(* the two storage backends (alertdb/storage.py) and the three HTTP routes *)
(* (alertdb/server.py).                                                     *)
(*                                                                          *)
(* Text is modelled as a sequence of tokens: "/" is the path separator,    *)
(* ".." and "." are the special directory names, every other token is a    *)
(* run of ordinary characters.  Two texts are equal iff their token        *)
(* sequences are equal.  Byte strings are sequences of numbers.            *)
(***************************************************************************)
EXTENDS Integers, Sequences, FiniteSets, TLC

VARIABLES
    argv,     \* the command line: each flag absent (None) or given (Some)
    phase,    \* "start" | "usage_error" | "serving"
    backend,  \* the backend object built by main(), NoBackend before that
    files,    \* file system: regular files, path -> [data, readable]
    objects,  \* object store: bucket name -> (key -> bytes)
    req       \* the requests: slot -> record (see IdleRequest)

vars == <<argv, phase, backend, files, objects, req>>

\* Number of request slots, i.e. of requests that can be in flight together.
NumRequests == 2

----------------------------------------------------------------------------
(* Optional values (Python's None)                                          *)

None == [some |-> FALSE]
Some(v) == [some |-> TRUE, val |-> v]

----------------------------------------------------------------------------
(* Text and path helpers                                                    *)

SEP == "/"

Last(s) == s[Len(s)]

StartsWithSep(s) == Len(s) > 0 /\ s[1] = SEP

EndsWithSep(s) == Len(s) > 0 /\ Last(s) = SEP

\* One step of posixpath.join: an absolute component discards what precedes.
join2(a, b) ==
    IF StartsWithSep(b) THEN b
    ELSE IF a = <<>> \/ EndsWithSep(a) THEN a \o b
    ELSE a \o <<SEP>> \o b

os_path_join(a, b, c) == join2(join2(a, b), c)

\* The components of a path text: the maximal separator-free runs.
RECURSIVE Split(_, _, _)
Split(s, i, cur) ==
    IF i > Len(s) THEN (IF cur = <<>> THEN <<>> ELSE <<cur>>)
    ELSE IF s[i] = SEP
         THEN (IF cur = <<>> THEN <<>> ELSE <<cur>>) \o Split(s, i + 1, <<>>)
         ELSE Split(s, i + 1, Append(cur, s[i]))

Components(path) == Split(path, 1, <<>>)

\* A file-system location: the sequence of names from the file-system root.
P(names) == [i \in 1..Len(names) |-> <<names[i]>>]

----------------------------------------------------------------------------
(* The storage substrates                                                   *)

\* Directories of the file system (fixed; the server never creates any).
Dirs == { P(<<>>), P(<<"r">>), P(<<"r", "alerts">>), P(<<"r", "schemas">>),
          P(<<"etc">>) }

\* Working directory of the process, for relative paths.
CWD == P(<<>>)

NodeType(p) ==
    IF p \in Dirs THEN "dir"
    ELSE IF p \in DOMAIN files THEN "file"
    ELSE "none"

Parent(p) == IF p = <<>> THEN <<>> ELSE SubSeq(p, 1, Len(p) - 1)

\* Kernel path walk: every component is looked up in a directory.
RECURSIVE Walk(_, _, _)
Walk(cur, comps, i) ==
    IF i > Len(comps) THEN [errno |-> "OK", node |-> cur]
    ELSE IF NodeType(cur) = "file" THEN [errno |-> "ENOTDIR", node |-> cur]
    ELSE IF NodeType(cur) = "none" THEN [errno |-> "ENOENT", node |-> cur]
    ELSE LET c == comps[i]
             nxt == IF c = <<".">> THEN cur
                    ELSE IF c = <<"..">> THEN Parent(cur)
                    ELSE Append(cur, c)
         IN Walk(nxt, comps, i + 1)

Resolve(path) ==
    Walk(IF StartsWithSep(path) THEN P(<<>>) ELSE CWD, Components(path), 1)

\* The Python exception class of an errno.
OSErrorClass(errno) ==
    CASE errno = "ENOENT"  -> "FileNotFoundError"
      [] errno = "ENOTDIR" -> "NotADirectoryError"
      [] errno = "EISDIR"  -> "IsADirectoryError"
      [] errno = "EACCES"  -> "PermissionError"
      [] OTHER             -> "OSError"

Returned(data) == [kind |-> "return", data |-> data, exc |-> "none"]
Raise(exc) == [kind |-> "raise", data |-> <<>>, exc |-> exc]

\* file.read(size): size < 0 reads to the end of the file.
f_read(data, size) ==
    IF size < 0 \/ size >= Len(data) THEN data ELSE SubSeq(data, 1, size)

\* open(path, "rb") followed by f.read(); fault is a transient I/O failure.
open_rb_errno(path, fault) ==
    LET w == Resolve(path) IN
    IF fault # "none" THEN "EIO"
    ELSE IF path = <<>> THEN "ENOENT"
    ELSE IF w.errno # "OK" THEN w.errno
    ELSE IF NodeType(w.node) = "none" THEN "ENOENT"
    ELSE IF NodeType(w.node) = "dir" THEN "EISDIR"
    ELSE IF EndsWithSep(path) THEN "ENOTDIR"
    ELSE IF ~files[w.node].readable THEN "EACCES"
    ELSE "OK"

read_partial(path, fault) ==
    IF open_rb_errno(path, fault) = "OK"
    THEN Returned(f_read(files[Resolve(path).node].data, 1))
    ELSE Raise(OSErrorClass(open_rb_errno(path, fault)))

open_rb_read(path, fault) ==
    IF open_rb_errno(path, fault) = "OK"
    THEN Returned(f_read(files[Resolve(path).node].data, -1))
    ELSE Raise(OSErrorClass(open_rb_errno(path, fault)))

\* client.get_object(Bucket, Key) followed by blob["Body"].read().
get_object_read(bucket, key, fault) ==
    IF fault # "none" THEN Raise(fault)
    ELSE IF bucket \notin DOMAIN objects THEN Raise("NoSuchBucket")
    ELSE IF key \notin DOMAIN objects[bucket] THEN Raise("NoSuchKey")
    ELSE Returned(f_read(objects[bucket][key], -1))

----------------------------------------------------------------------------
(* alertdb/storage.py                                                       *)

NoBackend ==
    [kind |-> "none", root_dir |-> <<>>, endpoint_url |-> "",
     packet_bucket |-> "", schema_bucket |-> ""]

FileBackend(root_dir) ==
    [kind |-> "FileBackend", root_dir |-> root_dir, endpoint_url |-> "",
     packet_bucket |-> "", schema_bucket |-> ""]

USDFObjectStorageBackend(endpoint_url, packet_bucket_name, schema_bucket_name) ==
    [kind |-> "USDFObjectStorageBackend", root_dir |-> <<>>,
     endpoint_url |-> endpoint_url,
     packet_bucket |-> packet_bucket_name, schema_bucket |-> schema_bucket_name]

\* f"/alert_archive/v1/alerts/{alert_id}.avro.gz"
alert_key(alert_id) ==
    <<SEP, "alert_archive", SEP, "v1", SEP, "alerts", SEP>> \o alert_id
        \o <<".avro.gz">>

\* f"/alert_archive/v1/schemas/{schema_id}.json"
schema_key(schema_id) ==
    <<SEP, "alert_archive", SEP, "v1", SEP, "schemas", SEP>> \o schema_id
        \o <<".json">>

\* A call on the storage substrate.
NoCall == [op |-> "none", bucket |-> "", target |-> <<>>]

FileBackend_get_alert_call(b, alert_id) ==
    [op |-> "open", bucket |-> "",
     target |-> os_path_join(b.root_dir, <<"alerts">>, alert_id)]

FileBackend_get_schema_call(b, schema_id) ==
    [op |-> "open", bucket |-> "",
     target |-> os_path_join(b.root_dir, <<"schemas">>, schema_id)]

USDF_get_alert_call(b, alert_id) ==
    [op |-> "get_object", bucket |-> b.packet_bucket,
     target |-> alert_key(alert_id)]

USDF_get_schema_call(b, schema_id) ==
    [op |-> "get_object", bucket |-> b.schema_bucket,
     target |-> schema_key(schema_id)]

\* The substrate call a backend method issues for an ID.
backend_call(b, method, id) ==
    IF b.kind = "FileBackend"
    THEN IF method = "get_alert" THEN FileBackend_get_alert_call(b, id)
         ELSE FileBackend_get_schema_call(b, id)
    ELSE IF method = "get_alert" THEN USDF_get_alert_call(b, id)
         ELSE USDF_get_schema_call(b, id)

\* What the substrate answers to a call.
Answer(call, fault) ==
    IF call.op = "open" THEN open_rb_read(call.target, fault)
    ELSE get_object_read(call.bucket, call.target, fault)

\* The transient failures a call can meet.
Faults(call) ==
    IF call.op = "open" THEN {"none", "EIO"}
    ELSE {"none", "AccessDenied", "ReadTimeoutError"}

\* except OSError: a handler one class too wide.
FileBackend_except_OSError(raw) ==
    IF raw.kind = "raise" THEN Raise("NotFoundError") ELSE raw

\* except FileNotFoundError: raise NotFoundError(...)
FileBackend_except(raw) ==
    IF raw.kind = "raise" /\ raw.exc = "FileNotFoundError"
    THEN Raise("NotFoundError") ELSE raw

\* except self.object_store_client.exceptions.NoSuchKey: raise NotFoundError(...)
USDF_except(raw) ==
    IF raw.kind = "raise" /\ raw.exc = "NoSuchKey"
    THEN Raise("NotFoundError") ELSE raw

\* The outcome of a backend method, from the substrate's answer.
backend_result(b, raw) ==
    IF b.kind = "FileBackend" THEN FileBackend_except(raw) ELSE USDF_except(raw)

----------------------------------------------------------------------------
(* alertdb/server.py                                                        *)

SCHEMA_CONTENT_TYPE == "application/vnd.schemaregistry.v1+json"
ALERT_CONTENT_TYPE == "application/octet-stream"

NoResp == [status |-> 0, media_type |-> "", type |-> "none", bytes |-> <<>>,
           text |-> ""]

\* Response(content=..., media_type=...)
Response(content, media_type) ==
    [status |-> 200, media_type |-> media_type, type |-> "bytes",
     bytes |-> content, text |-> ""]

\* HTTPException(status_code, detail): a JSON body {"detail": detail}
HTTPException(status_code, detail) ==
    [status |-> status_code, media_type |-> "application/json", type |-> "json",
     bytes |-> <<>>, text |-> detail]

\* An exception no handler catches: the framework answers 500.
ServerError ==
    [status |-> 500, media_type |-> "text/plain", type |-> "text",
     bytes |-> <<>>, text |-> "Internal Server Error"]

\* Response(content=b"OK")
healthcheck == Response(<<79, 75>>, "")

server_get_schema_swapped(outcome) ==
    IF outcome.kind = "return" THEN Response(outcome.data, ALERT_CONTENT_TYPE)
    ELSE IF outcome.exc = "NotFoundError" THEN HTTPException(404, "schema not found")
    ELSE ServerError

server_get_schema(outcome) ==
    IF outcome.kind = "return" THEN Response(outcome.data, SCHEMA_CONTENT_TYPE)
    ELSE IF outcome.exc = "NotFoundError" THEN HTTPException(404, "schema not found")
    ELSE ServerError

server_get_alert(outcome) ==
    IF outcome.kind = "return" THEN Response(outcome.data, ALERT_CONTENT_TYPE)
    ELSE IF outcome.exc = "NotFoundError" THEN HTTPException(404, "alert not found")
    ELSE ServerError

health_probes_backend(route) ==
    IF route = "alerts" THEN "get_alert" ELSE "get_schema"

\* The backend method a route's handler calls ("none": no backend call).
handler_method(route) ==
    CASE route = "alerts"  -> "get_alert"
      [] route = "schemas" -> "get_schema"
      [] OTHER             -> "none"

\* The response a route's handler builds from the backend's outcome.
handler_response(route, outcome) ==
    CASE route = "alerts"  -> server_get_alert(outcome)
      [] route = "schemas" -> server_get_schema(outcome)
      [] OTHER -> IF outcome.kind = "raise" THEN ServerError ELSE healthcheck

\* "/v1/alerts/{alert_id}": a path parameter matches one non-empty path
\* segment, so an ID reaches a handler only if it has no separator.
Routable(id) == id # <<>> /\ \A i \in 1..Len(id) : id[i] # SEP

----------------------------------------------------------------------------
(* alertdb/bin/alertdb.py                                                   *)

\* choices=("local-files", "google-cloud")
BackendChoices == {"local-files", "google-cloud"}

UsageError == [exit |-> "usage_error", backend |-> NoBackend]
Started(b) == [exit |-> "none", backend |-> b]

\* parser.parse_args(): the namespace, each absent flag set to its default.
parse_args(av) ==
    [backend |-> IF av.backend.some THEN av.backend.val ELSE "local-files",
     local_file_root |-> av.local_file_root,
     gcp_project |-> av.gcp_project,
     gcp_bucket_alerts |->
         IF av.gcp_bucket_alerts.some THEN av.gcp_bucket_alerts
         ELSE Some("alert-packets"),
     gcp_bucket_schemas |->
         IF av.gcp_bucket_schemas.some THEN av.gcp_bucket_schemas
         ELSE Some("alert-schemas")]

\* "Configure the right backend": the backend main() builds, or its exit.
configure_backend(args) ==
    IF args.backend = "local-files"
    THEN IF ~args.local_file_root.some THEN UsageError
         ELSE Started(FileBackend(args.local_file_root.val))
    ELSE IF args.backend = "google-cloud"
    THEN IF ~args.gcp_project.some THEN UsageError
         ELSE IF ~args.gcp_bucket_alerts.some \/ ~args.gcp_bucket_schemas.some
              THEN UsageError
         ELSE Started(USDFObjectStorageBackend(args.gcp_project.val,
                                               args.gcp_bucket_alerts.val,
                                               args.gcp_bucket_schemas.val))
    ELSE [exit |-> "AssertionError", backend |-> NoBackend]

\* main(): argparse rejects a --backend value outside the choices.
main(av) ==
    IF av.backend.some /\ av.backend.val \notin BackendChoices THEN UsageError
    ELSE configure_backend(parse_args(av))

----------------------------------------------------------------------------
(* Inputs                                                                   *)

\* The command lines tried.
Argvs ==
    [backend : {None, Some("local-files"), Some("google-cloud"), Some("s3-remote")},
     local_file_root : {None, Some(<<SEP, "r">>)},
     gcp_project : {None, Some("proj")},
     gcp_bucket_alerts : {None, Some("no-such-bucket")},
     gcp_bucket_schemas : {None, Some("no-such-bucket")}]

\* The IDs looked up.
IDs ==
    { <<"alert-id-1">>, <<"1">>, <<"bogus">>, <<"locked">>, <<"..">>, <<>>,
      <<"..", SEP, "schemas", SEP, "1">>, <<SEP, "etc", SEP, "x">>,
      <<"alert-id-1", SEP, "x">> }

\* The artifacts the archive may hold for an ID (b"" and a two-byte payload).
Payloads == { <<>>, <<1, 2>> }

\* Keys under which the integration test's fixture stores its objects.
test_alert_key(alert_id) == <<"v1", SEP, "alerts", SEP>> \o alert_id \o <<".avro">>
test_schema_key(schema_id) == <<SEP, "v1", SEP, "schemas", SEP>> \o schema_id

File(data, readable) == [data |-> data, readable |-> readable]

\* The file system when the archive holds alert (resp. schema) artifact a
\* (resp. s) for ID "alert-id-1" (resp. "1"); None: no such artifact.
FileSystem(a, s) ==
    LET fixed == (P(<<"etc", "x">>) :> File(<<9>>, TRUE))
                 @@ (P(<<"r", "alerts", "locked">>) :> File(<<5>>, FALSE))
        fa == IF a.some
              THEN P(<<"r", "alerts", "alert-id-1">>) :> File(a.val, TRUE)
              ELSE << >>
        fs == IF s.some
              THEN P(<<"r", "schemas", "1">>) :> File(s.val, TRUE)
              ELSE << >>
    IN fa @@ fs @@ fixed

\* The object store holding the same archive, and the test fixture's objects.
ObjectStore(a, s) ==
    LET pa == IF a.some THEN alert_key(<<"alert-id-1">>) :> a.val ELSE << >>
        ps == IF s.some THEN schema_key(<<"1">>) :> s.val ELSE << >>
    IN ("alert-packets" :>
            (pa @@ (alert_key(<<"locked">>) :> <<5>>)
                @@ (test_alert_key(<<"alert-id-1">>) :> <<7>>)))
       @@ ("alert-schemas" :>
            (ps @@ (test_schema_key(<<"1">>) :> <<8>>)))

----------------------------------------------------------------------------
(* State machine                                                            *)

NoOutcome == [kind |-> "none", data |-> <<>>, exc |-> "none"]

IdleRequest ==
    [pc |-> "idle", via |-> "none", route |-> "none", method |-> "none",
     id |-> <<>>, call |-> NoCall, fault |-> "none", outcome |-> NoOutcome,
     resp |-> NoResp]

Slots == DOMAIN req

\* A request is taken by the lowest free slot.
Free(r) == req[r].pc = "idle" /\ \A q \in Slots : q < r => req[q].pc # "idle"

\* The process before main() runs: any command line, any archive content,
\* one request slot.
Init ==
    /\ argv \in Argvs
    /\ phase = "start"
    /\ backend = NoBackend
    /\ \E a, s \in {None} \cup {Some(d) : d \in Payloads} :
          /\ files = FileSystem(a, s)
          /\ objects = ObjectStore(a, s)
    /\ req = [r \in 1..1 |-> IdleRequest]

\* NumRequests slots, two command lines (one per backend), one archive.
InitConcurrent ==
    /\ argv \in { [backend |-> None, local_file_root |-> Some(<<SEP, "r">>),
                   gcp_project |-> None, gcp_bucket_alerts |-> None,
                   gcp_bucket_schemas |-> None],
                  [backend |-> Some("google-cloud"), local_file_root |-> None,
                   gcp_project |-> Some("proj"), gcp_bucket_alerts |-> None,
                   gcp_bucket_schemas |-> None] }
    /\ phase = "start"
    /\ backend = NoBackend
    /\ files = FileSystem(Some(<<1, 2>>), Some(<<>>))
    /\ objects = ObjectStore(Some(<<1, 2>>), Some(<<>>))
    /\ req = [r \in 1..NumRequests |-> IdleRequest]

\* main(): build the backend and start the server, or exit.
Main ==
    /\ phase = "start"
    /\ phase' = IF main(argv).exit = "none" THEN "serving" ELSE main(argv).exit
    /\ backend' = main(argv).backend
    /\ UNCHANGED <<argv, files, objects, req>>

\* GET /v1/health
Health(r) ==
    /\ phase = "serving"
    /\ Free(r)
    /\ LET m == handler_method("health") IN
       req' = [req EXCEPT ![r] =
                 IF m = "none"
                 THEN [IdleRequest EXCEPT !.pc = "done", !.via = "http",
                          !.route = "health",
                          !.resp = handler_response("health", NoOutcome)]
                 ELSE [IdleRequest EXCEPT !.pc = "io", !.via = "http",
                          !.route = "health", !.method = m,
                          !.call = backend_call(backend, m, <<"1">>)]]
    /\ UNCHANGED <<argv, phase, backend, files, objects>>

\* GET /v1/alerts/{id} or GET /v1/schemas/{id}: the handler calls the backend,
\* which issues its substrate call and blocks on it.
Get(r, route, id) ==
    /\ phase = "serving"
    /\ Free(r)
    /\ Routable(id)
    /\ LET m == handler_method(route) IN
       req' = [req EXCEPT ![r] =
                 [IdleRequest EXCEPT !.pc = "io", !.via = "http",
                    !.route = route, !.method = m, !.id = id,
                    !.call = backend_call(backend, m, id)]]
    /\ UNCHANGED <<argv, phase, backend, files, objects>>

\* backend.get_alert(id) or backend.get_schema(id) called directly, with an ID
\* no route can deliver (for a routable ID the direct call is the first
\* statement of the handler, so Get covers it).
Direct(r, method, id) ==
    /\ phase = "serving"
    /\ Free(r)
    /\ ~Routable(id)
    /\ req' = [req EXCEPT ![r] =
                 [IdleRequest EXCEPT !.pc = "io", !.via = "api",
                    !.method = method, !.id = id,
                    !.call = backend_call(backend, method, id)]]
    /\ UNCHANGED <<argv, phase, backend, files, objects>>

\* A slot other than r's, when one is blocked on the substrate.
call_of_shared(r) ==
    IF \E q \in Slots : q # r /\ req[q].pc = "io"
    THEN req[CHOOSE q \in Slots : q # r /\ req[q].pc = "io"].call
    ELSE req[r].call

\* The call a blocked request waits for: local to its own frame.
call_of(r) == req[r].call

\* The file opened for update ("r+b" and a truncate) instead of for reading.
Complete_open_for_update(r, fault) ==
    /\ req[r].pc = "io"
    /\ fault \in Faults(req[r].call)
    /\ LET out == backend_result(backend, Answer(call_of(r), fault)) IN
       /\ req' = [req EXCEPT ![r].pc = "done", ![r].fault = fault,
                    ![r].outcome = out,
                    ![r].resp = IF req[r].via = "http"
                                THEN handler_response(req[r].route, out)
                                ELSE NoResp]
       /\ files' = IF req[r].call.op = "open" /\ out.kind = "return"
                   THEN [files EXCEPT ![Resolve(req[r].call.target).node].data = <<>>]
                   ELSE files
    /\ UNCHANGED <<argv, phase, backend, objects>>

\* The substrate answers; the backend method returns or raises; the handler
\* (if any) builds the response.
Complete(r, fault) ==
    /\ req[r].pc = "io"
    /\ fault \in Faults(req[r].call)
    /\ LET out == backend_result(backend, Answer(call_of(r), fault)) IN
       req' = [req EXCEPT ![r].pc = "done", ![r].fault = fault,
                 ![r].outcome = out,
                 ![r].resp = IF req[r].via = "http"
                             THEN handler_response(req[r].route, out)
                             ELSE NoResp]
    /\ UNCHANGED <<argv, phase, backend, files, objects>>

\* The response is delivered; the slot is free again.
Deliver(r) ==
    /\ req[r].pc = "done"
    /\ req' = [req EXCEPT ![r] = IdleRequest]
    /\ UNCHANGED <<argv, phase, backend, files, objects>>

Next ==
    \/ Main
    \/ \E r \in Slots : Health(r)
    \/ \E r \in Slots, route \in {"alerts", "schemas"}, id \in IDs : Get(r, route, id)
    \/ \E r \in Slots, method \in {"get_alert", "get_schema"}, id \in IDs :
          Direct(r, method, id)
    \/ \E r \in Slots, fault \in {"none", "EIO", "AccessDenied", "ReadTimeoutError"} :
          Complete(r, fault)
    \/ \E r \in Slots : Deliver(r)

Spec == Init /\ [][Next]_vars

SpecConcurrent == InitConcurrent /\ [][Next]_vars

----------------------------------------------------------------------------
(* Vocabulary of the properties                                             *)

Done(r) == req[r].pc = "done"

IsLookup(r) == req[r].method # "none"

\* The location a backend derives for a request's ID.
Location(r) == backend_call(backend, req[r].method, req[r].id)

\* The artifact stored at a location: Some(bytes), or None when the location
\* holds no regular file / no object.
StoredAt(call) ==
    IF call.op = "open"
    THEN LET w == Resolve(call.target) IN
         IF call.target # <<>> /\ w.errno = "OK" /\ NodeType(w.node) = "file"
            /\ ~EndsWithSep(call.target)
         THEN Some(files[w.node].data) ELSE None
    ELSE IF call.bucket \in DOMAIN objects
         THEN IF call.target \in DOMAIN objects[call.bucket]
              THEN Some(objects[call.bucket][call.target]) ELSE None
         ELSE None

\* The substrate does not serve the call at a location: permission denied on
\* the stored file, or the bucket does not exist.
Denied(call) ==
    \/ call.op = "get_object" /\ call.bucket \notin DOMAIN objects
    \/ call.op = "open" /\ StoredAt(call).some
       /\ ~files[Resolve(call.target).node].readable

\* A substrate failure other than "nothing at the location" met request r.
SubstrateFailure(r) == req[r].fault # "none" \/ Denied(Location(r))

----------------------------------------------------------------------------
(* C1: round-trip identity.  When bytes B are stored at the location the    *)
(* backend derives for the ID of a lookup and the substrate serves the     *)
(* read, get_alert / get_schema returns exactly B and the route answers    *)
(* 200 with body B.                                                        *)

C1_RoundTrip ==
    \A r \in Slots :
        (Done(r) /\ IsLookup(r) /\ ~SubstrateFailure(r) /\ StoredAt(Location(r)).some)
        => /\ req[r].outcome = Returned(StoredAt(Location(r)).val)
           /\ req[r].via = "http"
              => /\ req[r].resp.status = 200
                 /\ req[r].resp.type = "bytes"
                 /\ req[r].resp.bytes = StoredAt(Location(r)).val

C1_Witness ==
    \E r \in Slots :
        /\ Done(r) /\ req[r].via = "http" /\ req[r].route = "alerts"
        /\ backend.kind = "FileBackend"
        /\ StoredAt(Location(r)) = Some(<<1, 2>>)
        /\ req[r].resp.status = 200 /\ req[r].resp.bytes = <<1, 2>>

(* C2: not-found consistency (the claim as stated).  A lookup of an ID     *)
(* whose derived location holds no artifact, on a working substrate,       *)
(* signals NotFoundError and the route answers 404.                        *)

C2_NotFound ==
    \A r \in Slots :
        (Done(r) /\ IsLookup(r) /\ ~SubstrateFailure(r) /\ ~StoredAt(Location(r)).some)
        => /\ req[r].outcome = Raise("NotFoundError")
           /\ req[r].via = "http" => req[r].resp.status = 404

(* C3: a substrate failure other than "nothing at the location" is never   *)
(* turned into NotFoundError, into a successful result or into 404: the    *)
(* backend method raises it and the route answers with a non-404 failure.  *)

C3_FailurePropagates ==
    \A r \in Slots :
        (Done(r) /\ IsLookup(r) /\ SubstrateFailure(r))
        => /\ req[r].outcome.kind = "raise"
           /\ req[r].outcome.exc # "NotFoundError"
           /\ req[r].via = "http" => req[r].resp.status = 500

C3_Witness ==
    \E r \in Slots :
        /\ Done(r) /\ req[r].via = "http" /\ req[r].fault = "EIO"
        /\ req[r].id = <<"bogus">>
        /\ req[r].outcome = Raise("OSError")
        /\ req[r].resp.status = 500

(* C4: object-store key mapping (the claim as stated).  get_alert(A) reads *)
(* key alert_archive/v1/alerts/A.avro.gz of the packet bucket and          *)
(* get_schema(S) reads key alert_archive/v1/schemas/S.json of the schema   *)
(* bucket.                                                                  *)

C4_ObjectKeyMapping ==
    \A r \in Slots :
        req[r].call.op = "get_object"
        => /\ req[r].method = "get_alert"
              => /\ req[r].call.bucket = backend.packet_bucket
                 /\ req[r].call.target =
                       <<"alert_archive", SEP, "v1", SEP, "alerts", SEP>>
                           \o req[r].id \o <<".avro.gz">>
           /\ req[r].method = "get_schema"
              => /\ req[r].call.bucket = backend.schema_bucket
                 /\ req[r].call.target =
                       <<"alert_archive", SEP, "v1", SEP, "schemas", SEP>>
                           \o req[r].id \o <<".json">>

(* C5: filesystem key mapping (the claim as stated).  For any ID string,   *)
(* get_alert(A) opens exactly {root}/alerts/A and get_schema(S) exactly    *)
(* {root}/schemas/S, and a lookup that returns bytes has read a file       *)
(* inside {root}/alerts resp. {root}/schemas.                              *)

IsUnder(dir, node) ==
    Len(dir) < Len(node) /\ SubSeq(node, 1, Len(dir)) = dir

C5_FileKeyMapping ==
    \A r \in Slots :
        (Done(r) /\ req[r].call.op = "open")
        => LET base == backend.root_dir
                          \o <<SEP, IF req[r].method = "get_alert"
                                    THEN "alerts" ELSE "schemas">>
           IN /\ req[r].call.target = base \o <<SEP>> \o req[r].id
              /\ req[r].outcome.kind = "return"
                 => IsUnder(Resolve(base).node, Resolve(req[r].call.target).node)

(* C6: cross-backend equivalence (the claim as stated).  With the same     *)
(* logical archive in the file system and in the object store, a lookup    *)
(* has the same outcome on the file backend and on the object-store        *)
(* backend: the same bytes, or NotFoundError.                              *)

FileVariant == FileBackend(<<SEP, "r">>)

ObjectVariant == USDFObjectStorageBackend("proj", "alert-packets", "alert-schemas")

SoloOutcome(b, method, id, fault) ==
    backend_result(b, Answer(backend_call(b, method, id), fault))

SameArchive ==
    /\ \A id \in {<<"alert-id-1">>, <<"locked">>, <<"bogus">>} :
          StoredAt(backend_call(FileVariant, "get_alert", id))
              = StoredAt(backend_call(ObjectVariant, "get_alert", id))
    /\ \A id \in {<<"1">>, <<"bogus">>} :
          StoredAt(backend_call(FileVariant, "get_schema", id))
              = StoredAt(backend_call(ObjectVariant, "get_schema", id))

C6_CrossBackend ==
    \A r \in Slots :
        (/\ Done(r) /\ IsLookup(r) /\ SameArchive /\ ~SubstrateFailure(r)
         /\ ~Denied(backend_call(FileVariant, req[r].method, req[r].id))
         /\ ~Denied(backend_call(ObjectVariant, req[r].method, req[r].id)))
        => /\ req[r].outcome = SoloOutcome(FileVariant, req[r].method, req[r].id, "none")
           /\ req[r].outcome = SoloOutcome(ObjectVariant, req[r].method, req[r].id, "none")
           /\ req[r].outcome.kind = "raise" => req[r].outcome.exc = "NotFoundError"

(* C7: concurrency safety.  Whatever the interleaving of the requests in   *)
(* flight on the one backend, a finished lookup has the outcome (and the   *)
(* response) it would have had alone on the same store: those of its own   *)
(* ID.                                                                      *)

C7_Isolation ==
    \A r \in Slots :
        (Done(r) /\ IsLookup(r))
        => /\ req[r].outcome =
                 SoloOutcome(backend, req[r].method, req[r].id, req[r].fault)
           /\ req[r].via = "http"
              => req[r].resp =
                    handler_response(req[r].route,
                        SoloOutcome(backend, req[r].method, req[r].id, req[r].fault))
           /\ (~SubstrateFailure(r) /\ req[r].outcome.kind = "return")
              => Some(req[r].outcome.data) = StoredAt(Location(r))

\* A lookup finished in slot 2, which is taken only while slot 1 is busy, and
\* a lookup of another ID is blocked on the substrate in slot 1.
C7_Witness ==
    /\ Cardinality(Slots) >= 2
    /\ req[1].pc = "io" /\ Done(2)
    /\ req[1].id = <<"alert-id-1">> /\ req[1].method = "get_alert"
    /\ req[2].id = <<"1">> /\ req[2].method = "get_schema"
    /\ req[2].outcome = Returned(<<>>)

(* C8: health endpoint independence.  In every state of the backend and of *)
(* the store, GET /v1/health answers 200 with the fixed body b"OK" and      *)
(* calls neither get_alert / get_schema nor the substrate.                 *)

C8_Health ==
    \A r \in Slots :
        req[r].route = "health"
        => /\ Done(r)
           /\ req[r].resp.status = 200
           /\ req[r].resp.type = "bytes" /\ req[r].resp.bytes = <<79, 75>>
           /\ req[r].method = "none"
           /\ req[r].call.op = "none"

\* Health answered while the backend's buckets do not exist.
C8_Witness ==
    \E r \in Slots :
        /\ Done(r) /\ req[r].route = "health" /\ req[r].resp.status = 200
        /\ backend.kind = "USDFObjectStorageBackend"
        /\ backend.packet_bucket \notin DOMAIN objects
        /\ backend.schema_bucket \notin DOMAIN objects

(* C9: content-type fidelity.  A lookup route answers 200 exactly when the *)
(* backend method returned; the body is then the returned bytes and the    *)
(* content type is application/octet-stream on the alert route and         *)
(* application/vnd.schemaregistry.v1+json on the schema route, whatever    *)
(* the payload and the backend.                                            *)

C9_ContentType ==
    \A r \in Slots :
        (Done(r) /\ req[r].via = "http" /\ IsLookup(r))
        => /\ req[r].resp.status = 200 <=> req[r].outcome.kind = "return"
           /\ req[r].resp.status = 200
              => /\ req[r].resp.type = "bytes"
                 /\ req[r].resp.bytes = req[r].outcome.data
                 /\ req[r].route = "alerts"
                    => req[r].resp.media_type = "application/octet-stream"
                 /\ req[r].route = "schemas"
                    => req[r].resp.media_type
                          = "application/vnd.schemaregistry.v1+json"

C9_Witness ==
    \E r \in Slots :
        /\ Done(r) /\ req[r].route = "schemas" /\ req[r].resp.status = 200
        /\ backend.kind = "USDFObjectStorageBackend"
        /\ req[r].resp.bytes = <<1, 2>>
        /\ req[r].resp.media_type = "application/vnd.schemaregistry.v1+json"

(* C10: start-up configuration (the claim as stated).  The entry point     *)
(* selects a backend by --backend; when a required flag of the selected    *)
(* backend is absent (root directory; GCP project and the two bucket       *)
(* names) it ends with a usage error and builds no backend; otherwise the  *)
(* backend of the selected kind, built from those flags, serves.           *)

C10_Startup ==
    phase # "start"
    => LET sel == IF argv.backend.some THEN argv.backend.val ELSE "local-files"
           present ==
               CASE sel = "local-files" -> argv.local_file_root.some
                 [] sel = "google-cloud" ->
                       /\ argv.gcp_project.some
                       /\ argv.gcp_bucket_alerts.some
                       /\ argv.gcp_bucket_schemas.some
                 [] OTHER -> FALSE
       IN /\ ~present => phase = "usage_error" /\ backend = NoBackend
          /\ present
             => /\ phase = "serving"
                /\ sel = "local-files"
                   => backend = FileBackend(argv.local_file_root.val)
                /\ sel = "google-cloud"
                   => backend = USDFObjectStorageBackend(argv.gcp_project.val,
                                    argv.gcp_bucket_alerts.val,
                                    argv.gcp_bucket_schemas.val)

(* C11: read-only frame.  No step of the serving process (a health         *)
(* request, a lookup that succeeds or fails, the delivery of a response)   *)
(* changes the backend object built at start-up (root_dir; endpoint,       *)
(* packet bucket and schema bucket) or the contents of the file system and *)
(* of the object store.                                                    *)

C11_ReadOnly ==
    [][/\ files' = files
       /\ objects' = objects
       /\ phase = "serving" => backend' = backend /\ phase' = phase]_vars

\* A lookup that returned bytes, on a store that still holds them.
C11_Witness ==
    \E r \in Slots :
        /\ Done(r) /\ req[r].method = "get_alert"
        /\ backend = FileBackend(<<SEP, "r">>)
        /\ req[r].outcome = Returned(<<1, 2>>)
        /\ StoredAt(Location(r)) = Some(<<1, 2>>)

====
